---- MODULE Spec2Model ----
(***************************************************************************)
(* Model of mytorch/nn/rnn.py (RNNUnit, TimeIterator, RNN) and of          *)
(* mytorch/optim/sgd.py (SGD).                                             *)
(*                                                                         *)
(* A tensor of shape [B, features] is a sequence of B rows.  The claims    *)
(* are about which row goes where, so a row is one integer (input_size =   *)
(* hidden_size = 1) and the four parameters of the unit are integers.      *)
(* An optional tensor (hidden=None) is a sequence of length at most one:   *)
(* NoneT is None, Some(t) is the tensor t.  Python indices are 0-based;    *)
(* timesteps and rows are 1-based here, the loop counter i keeps the       *)
(* Python value.                                                           *)
(***************************************************************************)
EXTENDS Integers, Sequences, FiniteSets, TLC

VARIABLES
    obj,                    \* which constructor ran: "none", "RNN", "TimeIterator"
    pc,                     \* position: "new", "ready", "loop", "done",
                            \* "unit_returned", "error"
    err,                    \* kind of the exception that ended the call, "" if none
    nonlinearity,           \* constructor argument of the unit
    act,                    \* self.act of the unit: "Tanh", "ReLU" or Unset
    weight_ih, weight_hh,   \* unit parameters
    bias_ih, bias_hh,
    data, sorted_indices, batch_sizes,   \* the PackedSequence given to forward
    hidden,                 \* the hidden argument of TimeIterator.forward
    X,                      \* per-timestep segments of data
    hidden_states,          \* hidden_states list of TimeIterator.forward
    hidden_step_per_batch,  \* last row of every stored hidden state
    i,                      \* loop counter of the recurrence loop
    calls,                  \* history: the invocations of self.unit.forward
    result,                 \* value returned by TimeIterator.forward
    unit_call,              \* history: last direct call of RNNUnit.forward
    sgd_pc,                 \* SGD: "new", "ready", "error"
    params, grads,          \* SGD: data and grad of every parameter tensor
    lr, momentum,           \* SGD: hyper-parameters
    momentums,              \* SGD: momentum buffers
    params0, msum,          \* history: initial data, sum of the momentums applied
    nsteps                  \* history: number of step calls

rnnvars == <<obj, pc, err, nonlinearity, act, weight_ih, weight_hh, bias_ih,
             bias_hh, data, sorted_indices, batch_sizes, hidden, X,
             hidden_states, hidden_step_per_batch, i, calls, result, unit_call>>
sgdvars == <<sgd_pc, params, grads, lr, momentum, momentums, params0, msum,
             nsteps>>
vars == <<rnnvars, sgdvars>>

----
\* Bounds of the model.
MaxT == 3        \* timesteps of a packed batch
MaxB == 3        \* samples of a packed batch
MaxRows == 5     \* rows of the packed data
MaxParams == 2   \* parameter tensors held by the optimizer
MaxSteps == 3    \* calls of SGD.step

DataVals == {1, 2}            \* values of an input row
HiddenVals == {0, 1}          \* values of a row of the caller's hidden
WeightIHVals == {1, 2}        \* np.random.randn draws of weight_ih
WeightHHVals == {-1, 1}       \* np.random.randn draws of weight_hh
Nonlinearities == {"tanh", "relu", "sigmoid"}
ParamVals == {0, 1}           \* initial data of a parameter
GradVals == {-1, 1}           \* values of a gradient
LrVals == {1, 2}              \* learning rates
MomentumVals == {0, 1, 2}     \* momentum factors

----
\* Values and helpers.
Unset == "unset"
NoneT == <<>>
Some(t) == <<t>>
NoCall == [called |-> FALSE]

Min(a, b) == IF a < b THEN a ELSE b

RECURSIVE SumSeq(_)
SumSeq(s) == IF Len(s) = 0 THEN 0 ELSE s[1] + SumSeq(Tail(s))

\* Rows [start, end) of a tensor, as Python/numpy slicing clips them.
Slice(s, start, end) ==
    LET lo == Min(start, Len(s))
        hi == Min(end, Len(s))
    IN IF hi <= lo THEN <<>> ELSE SubSeq(s, lo + 1, hi)

RECURSIVE Cat(_)
Cat(ts) == IF Len(ts) = 0 THEN <<>> ELSE ts[1] \o Cat(Tail(ts))

Reverse(s) == [k \in 1..Len(s) |-> s[Len(s) + 1 - k]]

RECURSIVE SortedSeq(_)
SortedSeq(S) ==
    IF S = {} THEN <<>>
    ELSE LET m == CHOOSE x \in S : \A y \in S : x <= y
         IN <<m>> \o SortedSeq(S \ {m})

Range(s) == {s[k] : k \in 1..Len(s)}

----
\* Activations, pointwise over the rows.
Tanh(v) == IF v > 0 THEN 1 ELSE IF v < 0 THEN -1 ELSE 0
ReLU(v) == IF v > 0 THEN v ELSE 0
ApplyAct(a, v) == IF a = "Tanh" THEN Tanh(v) ELSE ReLU(v)

\* RNNUnit.__init__: the activation chosen by the nonlinearity string.
SelectActDefaulting(nl) == IF nl = "relu" THEN "ReLU" ELSE "Tanh"
SelectAct(nl) ==
    IF nl = "tanh" THEN "Tanh"
    ELSE IF nl = "relu" THEN "ReLU"
    ELSE Unset

\* Elementwise sum of two tensors with numpy's broadcasting of the rows.
AddRows(a, b) ==
    IF Len(a) = Len(b)
        THEN [ok |-> TRUE, out |-> [j \in 1..Len(a) |-> a[j] + b[j]]]
    ELSE IF Len(b) = 1
        THEN [ok |-> TRUE, out |-> [j \in 1..Len(a) |-> a[j] + b[1]]]
    ELSE IF Len(a) = 1
        THEN [ok |-> TRUE, out |-> [j \in 1..Len(b) |-> a[1] + b[j]]]
    ELSE [ok |-> FALSE, out |-> <<>>]

\* `not hidden`: None, or a tensor without rows (len() of a tensor is its
\* number of rows).  A tensor with rows is kept as given.
Falsy(h) == h = NoneT \/ Len(h[1]) = 0

\* The tensor RNNUnit.forward builds when hidden is absent.
DefaultHiddenOnes(x) == [j \in 1..Len(x) |-> 1]
DefaultHidden(x) == [j \in 1..Len(x) |-> 0]

\* RNNUnit.forward(x, hidden) for a tensor x.
UnitForward(a, wih, bih, whh, bhh, x, h) ==
    LET hid == IF Falsy(h) THEN DefaultHidden(x) ELSE h[1]
        ih == [j \in 1..Len(x) |-> x[j] * wih + bih]
        hh == [j \in 1..Len(hid) |-> hid[j] * whh + bhh]
        weighted_sum == AddRows(ih, hh)
    IN IF ~weighted_sum.ok THEN [ok |-> FALSE, err |-> "ShapeError", out |-> <<>>]
       ELSE IF a = Unset THEN [ok |-> FALSE, err |-> "AttributeError", out |-> <<>>]
       ELSE [ok |-> TRUE, err |-> "",
             out |-> [j \in 1..Len(weighted_sum.out) |-> ApplyAct(a, weighted_sum.out[j])]]

\* RNNUnit.forward with its type check of x.
RNNUnitForward(a, wih, bih, whh, bhh, isTensor, x, h) ==
    IF ~isTensor THEN [ok |-> FALSE, err |-> "Exception", out |-> <<>>]
    ELSE UnitForward(a, wih, bih, whh, bhh, x, h)

----
\* TimeIterator.forward, first loop: the segments of data, one per timestep.
RECURSIVE SegmentLoopStuck(_, _, _, _)
SegmentLoopStuck(d, bs, k, start) ==
    IF k > Len(bs) THEN <<>>
    ELSE <<Slice(d, start, start + bs[k])>> \o SegmentLoopStuck(d, bs, k + 1, start)

RECURSIVE SegmentLoop(_, _, _, _)
SegmentLoop(d, bs, k, start) ==
    IF k > Len(bs) THEN <<>>
    ELSE LET end == start + bs[k]
         IN <<Slice(d, start, end)>> \o SegmentLoop(d, bs, k + 1, end)

SegmentsMut(d, bs) == SegmentLoopStuck(d, bs, 1, 0)
Segments(d, bs) == SegmentLoop(d, bs, 1, 0)

\* hidden_states[i - 1][:effective_batch_size]
TruncateKeepAll(hs, effective_batch_size) == hs
Truncate(hs, effective_batch_size) == Slice(hs, 0, effective_batch_size)

\* The timestep indices (0-based) whose exit row is selected: for every
\* distinct batch size the last index holding it, ascending.
FirstStepIndices(bs) ==
    SortedSeq({ CHOOSE k \in 0..(Len(bs) - 1) :
                    bs[k + 1] = v /\ \A m \in 0..(Len(bs) - 1) : bs[m + 1] = v => m >= k
                : v \in Range(bs) })
TargetHiddenStepIndices(bs) ==
    LET batch_size_sample_count ==
            [v \in Range(bs) |->
                CHOOSE k \in 0..(Len(bs) - 1) :
                    bs[k + 1] = v /\ \A m \in 0..(Len(bs) - 1) : bs[m + 1] = v => m <= k]
    IN SortedSeq({batch_size_sample_count[v] : v \in Range(bs)})

\* last_hidden_step_per_sample, reversed, and joined.
LastHiddenStepPerSample(hspb, bs) ==
    LET idx == TargetHiddenStepIndices(bs)
    IN Cat(Reverse([k \in 1..Len(idx) |-> hspb[idx[k] + 1]]))

\* The PackedSequence returned.
MakePackedReversed(hs, si, bs) ==
    [data |-> Cat(Reverse(hs)), sorted_indices |-> si, batch_sizes |-> bs]
MakePacked(hs, si, bs) ==
    [data |-> Cat(hs), sorted_indices |-> si, batch_sizes |-> bs]

----
\* The inputs the model draws.
BatchSizeSeqs == UNION {[1..n -> 0..MaxB] : n \in 1..MaxT}
DataSeqs(n) == [1..n -> DataVals]

\* The invariant of a PackedSequence: batch_sizes positive, non-increasing,
\* summing to the number of data rows.
WellFormed(d, bs) ==
    /\ \A k \in 1..Len(bs) : bs[k] > 0
    /\ \A k \in 1..(Len(bs) - 1) : bs[k] >= bs[k + 1]
    /\ SumSeq(bs) = Len(d)

Identity(n) == [k \in 1..n |-> k - 1]
SortedIndicesOf(n) == {Identity(n), Reverse(Identity(n))}
HiddenArgs(n) == {NoneT} \cup {Some(h) : h \in [1..n -> HiddenVals]}

----
Init ==
    /\ obj = "none" /\ pc = "new" /\ err = ""
    /\ nonlinearity = "" /\ act = Unset
    /\ weight_ih = 0 /\ weight_hh = 0 /\ bias_ih = 0 /\ bias_hh = 0
    /\ data = <<>> /\ sorted_indices = <<>> /\ batch_sizes = <<>>
    /\ hidden = NoneT /\ X = <<>> /\ hidden_states = <<>>
    /\ hidden_step_per_batch = <<>> /\ i = 0 /\ calls = <<>>
    /\ result = [returned |-> FALSE]
    /\ unit_call = NoCall
    /\ sgd_pc = "new" /\ params = <<>> /\ grads = <<>>
    /\ lr = 0 /\ momentum = 0 /\ momentums = <<>>
    /\ params0 = <<>> /\ msum = <<>> /\ nsteps = 0

\* RNN.__init__: raises before anything is built.
ConstructRNN ==
    /\ pc = "new"
    /\ \E nl \in Nonlinearities :
        /\ obj' = "RNN"
        /\ nonlinearity' = nl
        /\ pc' = "error"
        /\ err' = "NotImplementedError"
    /\ UNCHANGED <<act, weight_ih, weight_hh, bias_ih, bias_hh, data,
                   sorted_indices, batch_sizes, hidden, X, hidden_states,
                   hidden_step_per_batch, i, calls, result, unit_call>>
    /\ UNCHANGED sgdvars

\* TimeIterator.__init__ with basic_unit = RNNUnit, and RNNUnit.__init__.
ConstructTimeIterator ==
    /\ pc = "new"
    /\ \E nl \in Nonlinearities, wih \in WeightIHVals, whh \in WeightHHVals :
        /\ obj' = "TimeIterator"
        /\ nonlinearity' = nl
        /\ weight_ih' = wih /\ bias_ih' = 0
        /\ weight_hh' = whh /\ bias_hh' = 0
        /\ act' = SelectAct(nl)
    /\ pc' = "ready"
    /\ UNCHANGED <<err, data, sorted_indices, batch_sizes, hidden, X,
                   hidden_states, hidden_step_per_batch, i, calls, result,
                   unit_call>>
    /\ UNCHANGED sgdvars

\* A direct call self.unit(x, hidden).
CallUnit ==
    /\ pc = "ready"
    /\ \E isTensor \in BOOLEAN, n \in 1..MaxB :
        \E x \in DataSeqs(n), h \in HiddenArgs(n) :
            LET res == RNNUnitForward(act, weight_ih, bias_ih, weight_hh,
                                      bias_hh, isTensor, x, h)
            IN /\ unit_call' = [called |-> TRUE, isTensor |-> isTensor,
                                x |-> x, h |-> h, res |-> res]
               /\ pc' = IF res.ok THEN "unit_returned" ELSE "error"
               /\ err' = res.err
    /\ UNCHANGED <<obj, nonlinearity, act, weight_ih, weight_hh, bias_ih,
                   bias_hh, data, sorted_indices, batch_sizes, hidden, X,
                   hidden_states, hidden_step_per_batch, i, calls, result>>
    /\ UNCHANGED sgdvars

\* TimeIterator.forward up to the recurrence loop: unpack the input, cut the
\* segments, allocate hidden_states.
Enter(d, si, bs, h) ==
    /\ data' = d /\ sorted_indices' = si /\ batch_sizes' = bs /\ hidden' = h
    /\ X' = Segments(d, bs)
    /\ hidden_states' = [k \in 1..Len(bs) |-> <<>>]
    /\ hidden_step_per_batch' = <<>>
    /\ i' = 0
    /\ pc' = "loop"
    /\ UNCHANGED <<obj, err, nonlinearity, act, weight_ih, weight_hh, bias_ih,
                   bias_hh, calls, result, unit_call>>
    /\ UNCHANGED sgdvars

\* forward on a PackedSequence that satisfies its invariant.
CallForward ==
    /\ pc = "ready"
    /\ \E bs \in BatchSizeSeqs :
        /\ SumSeq(bs) <= MaxRows
        /\ \E d \in DataSeqs(SumSeq(bs)) :
            /\ WellFormed(d, bs)
            /\ \E si \in SortedIndicesOf(bs[1]), h \in HiddenArgs(bs[1]) :
                Enter(d, si, bs, h)

\* forward on a triple that breaks the PackedSequence invariant.
CallForwardMalformed ==
    /\ pc = "ready"
    /\ \E bs \in BatchSizeSeqs, n \in 0..MaxRows :
        \E d \in DataSeqs(n) :
            /\ ~WellFormed(d, bs)
            /\ \E h \in HiddenArgs(bs[1]) :
                Enter(d, Identity(bs[1]), bs, h)

\* One iteration of the recurrence loop.
LoopStep ==
    /\ pc = "loop"
    /\ i < Len(X)
    /\ LET h_previous ==
               IF i = 0 THEN hidden
               ELSE Some(Truncate(hidden_states[i], Len(X[i + 1])))
           res == UnitForward(act, weight_ih, bias_ih, weight_hh, bias_hh,
                              X[i + 1], h_previous)
       IN /\ calls' = Append(calls, [x |-> X[i + 1], h |-> h_previous,
                                     from |-> IF i = 0 THEN "hidden" ELSE "hidden_states",
                                     stored |-> i])
          /\ IF ~res.ok
                THEN /\ pc' = "error" /\ err' = res.err
                     /\ UNCHANGED <<hidden_states, hidden_step_per_batch, i>>
             ELSE IF Len(res.out) = 0
                THEN /\ pc' = "error" /\ err' = "IndexError"
                     /\ hidden_states' = [hidden_states EXCEPT ![i + 1] = res.out]
                     /\ UNCHANGED <<hidden_step_per_batch, i>>
             ELSE /\ hidden_states' = [hidden_states EXCEPT ![i + 1] = res.out]
                  /\ hidden_step_per_batch' =
                         Append(hidden_step_per_batch, <<res.out[Len(res.out)]>>)
                  /\ i' = i + 1
                  /\ UNCHANGED <<pc, err>>
    /\ UNCHANGED <<obj, nonlinearity, act, weight_ih, weight_hh, bias_ih,
                   bias_hh, data, sorted_indices, batch_sizes, hidden, X,
                   result, unit_call>>
    /\ UNCHANGED sgdvars

\* After the loop: select the final hidden rows, build and return the outputs.
Collect ==
    /\ pc = "loop"
    /\ i = Len(X)
    /\ result' = [returned |-> TRUE,
                  ps |-> MakePacked(hidden_states, sorted_indices, batch_sizes),
                  hidden |-> LastHiddenStepPerSample(hidden_step_per_batch, batch_sizes)]
    /\ pc' = "done"
    /\ UNCHANGED <<obj, err, nonlinearity, act, weight_ih, weight_hh, bias_ih,
                   bias_hh, data, sorted_indices, batch_sizes, hidden, X,
                   hidden_states, hidden_step_per_batch, i, calls, unit_call>>
    /\ UNCHANGED sgdvars

Next ==
    \/ ConstructRNN
    \/ ConstructTimeIterator
    \/ CallUnit
    \/ CallForward
    \/ LoopStep
    \/ Collect

Spec == Init /\ [][Next]_vars

NextMalformed ==
    \/ ConstructRNN
    \/ ConstructTimeIterator
    \/ CallUnit
    \/ CallForward
    \/ CallForwardMalformed
    \/ LoopStep
    \/ Collect

SpecMalformed == Init /\ [][NextMalformed]_vars

----
\* SGD.  A parameter tensor is one integer; its grad is optional (NoneT until
\* a backward pass has filled it).

\* The new momentum buffer of one parameter.
NewMomentumPlus(beta, m, eta, g) == (beta * m) + (eta * g)
NewMomentum(beta, m, eta, g) == (beta * m) - (eta * g)

\* The first index whose grad is None stops the loop of step with an
\* AttributeError; Len + 1 when every grad is there.
FirstMissing(gs) ==
    IF \A k \in 1..Len(gs) : gs[k] # NoneT THEN Len(gs) + 1
    ELSE CHOOSE k \in 1..Len(gs) :
            gs[k] = NoneT /\ \A m \in 1..(k - 1) : gs[m] # NoneT

StepMomentums(ms, gs, eta, beta) ==
    [idx \in 1..Len(ms) |->
        IF idx < FirstMissing(gs) THEN NewMomentum(beta, ms[idx], eta, gs[idx][1])
        ELSE ms[idx]]

StepParams(ps, ms, gs, eta, beta) ==
    [idx \in 1..Len(ps) |->
        IF idx < FirstMissing(gs) THEN ps[idx] + StepMomentums(ms, gs, eta, beta)[idx]
        ELSE ps[idx]]

\* SGD.__init__
ConstructSGD ==
    /\ sgd_pc = "new"
    /\ \E n \in 1..MaxParams, eta \in LrVals, beta \in MomentumVals :
        \E p \in [1..n -> ParamVals] :
            /\ params' = p
            /\ grads' = [k \in 1..n |-> NoneT]
            /\ lr' = eta
            /\ momentum' = beta
            /\ momentums' = [k \in 1..n |-> 0]
            /\ params0' = p
            /\ msum' = [k \in 1..n |-> 0]
    /\ sgd_pc' = "ready"
    /\ UNCHANGED nsteps
    /\ UNCHANGED rnnvars

\* A backward pass of the caller stores gradients in the parameters.
Backward ==
    /\ sgd_pc = "ready"
    /\ nsteps < MaxSteps
    /\ \E g \in [1..Len(params) -> {NoneT} \cup {Some(v) : v \in GradVals}] :
        /\ g # grads
        /\ grads' = g
    /\ UNCHANGED <<sgd_pc, params, lr, momentum, momentums, params0, msum,
                   nsteps>>
    /\ UNCHANGED rnnvars

\* SGD.step
Step ==
    /\ sgd_pc = "ready"
    /\ nsteps < MaxSteps
    /\ momentums' = StepMomentums(momentums, grads, lr, momentum)
    /\ params' = StepParams(params, momentums, grads, lr, momentum)
    /\ sgd_pc' = IF FirstMissing(grads) <= Len(params) THEN "error" ELSE "ready"
    /\ msum' = [idx \in 1..Len(params) |->
                    IF idx < FirstMissing(grads) THEN msum[idx] + momentums'[idx]
                    ELSE msum[idx]]
    /\ nsteps' = nsteps + 1
    /\ UNCHANGED <<grads, lr, momentum, params0>>
    /\ UNCHANGED rnnvars

NextSGD ==
    \/ ConstructSGD
    \/ Backward
    \/ Step

SpecSGD == Init /\ [][NextSGD]_vars

----
\* Reference definitions for the properties.

\* Number of data rows before timestep t.
Offset(bs, t) == SumSeq(SubSeq(bs, 1, t - 1))

\* Length of sorted sample k: the number of timesteps at which it is active.
SampleLen(bs, k) == Cardinality({t \in 1..Len(bs) : bs[t] >= k})

\* Last timestep whose batch size is v.
LastStepOf(bs, v) ==
    CHOOSE t \in 1..Len(bs) : bs[t] = v /\ \A u \in 1..Len(bs) : bs[u] = v => u <= t

\* Hidden state of sorted sample k after timestep t, from the recurrence
\* unrolled for that sample alone.
RECURSIVE SampleHidden(_, _)
SampleHidden(k, t) ==
    LET x == data[Offset(batch_sizes, t) + k]
        prev == IF t = 1
                    THEN (IF hidden = NoneT THEN 0 ELSE hidden[1][k])
                ELSE SampleHidden(k, t - 1)
    IN ApplyAct(act, (x * weight_ih + bias_ih) + (prev * weight_hh + bias_hh))

\* hidden_states[t] of a run of the recurrence that starts from h0.
RECURSIVE RunFrom(_, _)
RunFrom(h0, t) ==
    UnitForward(act, weight_ih, bias_ih, weight_hh, bias_hh, X[t],
                IF t = 1 THEN h0
                ELSE Some(Slice(RunFrom(h0, t - 1), 0, Len(X[t])))).out

Entered == obj = "TimeIterator" /\ Len(batch_sizes) >= 1

----
\* C1: for every well-formed packed input the final-hidden tensor returned by
\* TimeIterator.forward has batch_sizes[0] rows, and row k is the hidden state
\* of sorted sample k at its last active timestep.
C1_FinalHiddenPerSample ==
    (pc = "done" /\ WellFormed(data, batch_sizes)) =>
        /\ Len(result.hidden) = batch_sizes[1]
        /\ \A k \in 1..batch_sizes[1] :
              result.hidden[k] = SampleHidden(k, SampleLen(batch_sizes, k))

\* C2: forward on malformed batch_sizes ends in a validation error and the
\* unit is never invoked before it.
C2_MalformedRejected ==
    (Entered /\ ~WellFormed(data, batch_sizes)) =>
        /\ calls = <<>>
        /\ pc # "done"
        /\ (pc = "error" => err = "ValidationError")

\* C3: on a well-formed input, the previous hidden passed to the unit at a
\* timestep t > 0 has batch_sizes[t] rows, and they are the first
\* batch_sizes[t] rows of hidden_states[t-1], in order.
C3_TruncatedPrefix ==
    (Entered /\ WellFormed(data, batch_sizes)) =>
        \A t \in 2..Len(calls) :
            /\ calls[t].h # NoneT
            /\ Len(calls[t].h[1]) = batch_sizes[t]
            /\ Len(hidden_states[t - 1]) >= batch_sizes[t]
            /\ \A j \in 1..batch_sizes[t] :
                  calls[t].h[1][j] = hidden_states[t - 1][j]

C3_Witness ==
    /\ pc = "done"
    /\ Len(calls) = 3
    /\ batch_sizes = <<3, 1, 1>>
    /\ hidden_states[1][1] # hidden_states[1][3]
    /\ calls[2].h = Some(<<hidden_states[1][1]>>)

\* C4: the packed sequence returned holds the hidden states of the timesteps
\* one after the other, timestep t in the row range of segment t of the input,
\* sum(batch_sizes) rows in all, with the input's sorted_indices and
\* batch_sizes.
C4_PackedOutput ==
    pc = "done" =>
        /\ Len(result.ps.data) = SumSeq(batch_sizes)
        /\ Len(result.ps.data) = Len(data)
        /\ \A t \in 1..Len(batch_sizes) :
              /\ Len(hidden_states[t]) = batch_sizes[t]
              /\ \A j \in 1..batch_sizes[t] :
                    result.ps.data[Offset(batch_sizes, t) + j] = hidden_states[t][j]
        /\ result.ps.sorted_indices = sorted_indices
        /\ result.ps.batch_sizes = batch_sizes

C4_Witness ==
    /\ pc = "done"
    /\ batch_sizes = <<2, 2, 1>>
    /\ sorted_indices = <<1, 0>>
    /\ Len(result.ps.data) = 5
    /\ result.ps.data[1] # result.ps.data[5]

\* C5: the unit called with hidden=None returns what it returns for an
\* explicit all-zero hidden of the same number of rows, and so does the time
\* iteration started without hidden0.
C5_ZeroHiddenDefault ==
    /\ (unit_call.called /\ unit_call.isTensor /\ unit_call.h = NoneT) =>
          unit_call.res =
              RNNUnitForward(act, weight_ih, bias_ih, weight_hh, bias_hh, TRUE,
                             unit_call.x, Some([j \in 1..Len(unit_call.x) |-> 0]))
    /\ (Entered /\ hidden = NoneT) =>
          /\ \A t \in 1..i :
                hidden_states[t] = RunFrom(Some([j \in 1..batch_sizes[1] |-> 0]), t)
          /\ pc = "done" =>
                result.ps.data =
                    Cat([t \in 1..Len(X) |->
                            RunFrom(Some([j \in 1..batch_sizes[1] |-> 0]), t)])

C5_Witness ==
    /\ pc = "done"
    /\ hidden = NoneT
    /\ act = "ReLU"
    /\ weight_hh = 1
    /\ Len(batch_sizes) = 2
    /\ calls[1].h = NoneT

\* C6: constructing RNN(input_size, hidden_size, nonlinearity) completes and
\* yields a ready-to-call time iterator with a unit.
C6_RNNConstructs ==
    obj = "RNN" => (pc = "ready" /\ err = "")

\* C7: an RNNUnit built with a nonlinearity other than "tanh" and "relu" is
\* constructed without error and has no activation; the failure comes with
\* the first forward call, and no forward call on it returns a hidden state.
C7_UnrecognizedNonlinearity ==
    (obj = "TimeIterator" /\ nonlinearity \notin {"tanh", "relu"}) =>
        /\ act = Unset
        /\ pc \notin {"done", "unit_returned"}
        /\ (pc = "error" => (unit_call.called \/ Len(calls) = 1))
        /\ ((~unit_call.called /\ calls = <<>>) => err = "")
        /\ (unit_call.called => (~unit_call.res.ok /\ unit_call.res.out = <<>>))
        /\ (calls # <<>> => pc = "error")
        /\ \A t \in 1..Len(hidden_states) : hidden_states[t] = <<>>
        /\ ~result.returned

C7_Witness ==
    /\ obj = "TimeIterator"
    /\ nonlinearity = "sigmoid"
    /\ pc = "error"
    /\ err = "AttributeError"
    /\ Len(calls) = 1

\* C8: forward invokes the unit once per timestep in increasing order,
\* len(batch_sizes) times when it returns; invocation t gets segment t of the
\* data, only invocation 0 gets the caller's hidden, and invocation t > 0
\* happens with hidden_states[t-1] stored.
C8_InvocationOrder ==
    Entered =>
        /\ Len(calls) <= Len(batch_sizes)
        /\ (pc = "done" => Len(calls) = Len(batch_sizes))
        /\ (pc = "loop" => Len(calls) = i)
        /\ \A t \in 1..Len(calls) :
              /\ Len(calls[t].x) = batch_sizes[t]
              /\ \A j \in 1..batch_sizes[t] :
                    calls[t].x[j] = data[Offset(batch_sizes, t) + j]
              /\ calls[t].stored = t - 1
              /\ (calls[t].from = "hidden") = (t = 1)
              /\ (t = 1 => calls[t].h = hidden)
              /\ (t > 1 => /\ Len(hidden_states[t - 1]) = batch_sizes[t - 1]
                           /\ calls[t].h =
                                  Some(SubSeq(hidden_states[t - 1], 1, batch_sizes[t])))

C8_Witness ==
    /\ pc = "done"
    /\ Len(calls) = 3
    /\ batch_sizes = <<2, 2, 1>>
    /\ hidden = Some(<<1, 0>>)
    /\ calls[2].x # calls[1].x

\* C9: the momentum buffers start at zero; a step that returns sets every
\* buffer to momentum*buffer - lr*grad and adds it to the parameter, leaving
\* grads, lr and momentum alone; every parameter equals its initial data plus
\* the momentums applied to it; with momentum 0 a step moves a parameter by
\* -lr*grad.
C9_Inv ==
    sgd_pc # "new" =>
        /\ (nsteps = 0 => \A idx \in 1..Len(momentums) : momentums[idx] = 0)
        /\ \A idx \in 1..Len(params) : params[idx] = params0[idx] + msum[idx]

C9_Step ==
    (nsteps' = nsteps + 1 /\ sgd_pc' = "ready") =>
        /\ \A idx \in 1..Len(params) :
              /\ momentums'[idx] = (momentum * momentums[idx]) - (lr * grads[idx][1])
              /\ params'[idx] = params[idx] + momentums'[idx]
              /\ msum'[idx] = msum[idx] + momentums'[idx]
              /\ (momentum = 0 => params'[idx] - params[idx] = 0 - (lr * grads[idx][1]))
        /\ grads' = grads /\ lr' = lr /\ momentum' = momentum

C9_SGDMomentum == []C9_Inv /\ [][C9_Step]_vars

C9_Witness ==
    /\ sgd_pc = "ready"
    /\ nsteps = 3
    /\ momentum = 2
    /\ Len(params) = 2
    /\ momentums[1] # 0
    /\ params[2] # params0[2]

====
